---- MODULE Spec2Model ----
(***************************************************************************)
(* Chat-YSB: the scripted dialog engine (chat_bienestar.py) and the two    *)
(* HTTP front-ends that keep one dialog per session: app.py (registry with *)
(* a lock and idle eviction) and server.py (plain dictionary), and main.py,*)
(* the front-end with one dialog for the whole process.                    *)
(*                                                                         *)
(* Texts are sequences of one-character strings, so that strip(), lower(), *)
(* the substring test and the digit filter are computed, not assumed.      *)
(***************************************************************************)
EXTENDS Integers, Sequences, FiniteSets, TLC

VARIABLES
    sessions,   \* app.py: sessions, session id -> [chat, last_active]
    lock,       \* app.py: lock, the thread that holds it or Libre
    sesiones,   \* server.py: sesiones, session id -> reference to a ChatBienestar
    heap,       \* server.py: the ChatBienestar objects, by reference
    bot,        \* main.py: bot, the one ChatBienestar of the process
    clock,      \* time.time()
    uuids,      \* number of identifiers uuid.uuid4() has produced
    objetos,    \* number of ChatBienestar objects constructed
    pc,         \* where each worker thread is in the handler it runs
    hilo,       \* the local variables of the handler each thread runs
    requests,   \* number of requests received
    ticks       \* number of times the clock advanced

vars == <<sessions, lock, sesiones, heap, bot, clock, uuids, objetos, pc, hilo, requests, ticks>>

(***************************************************************************)
(* Bounds of the model.                                                    *)
(***************************************************************************)
MaxRequests == 3     \* requests received, when two threads serve them
MaxSecuencial == 5   \* requests received, when one thread serves them
MaxTicks == 1        \* times the clock advances

Threads == {"t1", "t2"}

(***************************************************************************)
(* Text helpers.                                                           *)
(***************************************************************************)
Digits == {"0", "1", "2", "3", "4", "5", "6", "7", "8", "9"}
Whitespace == {" "}

\* a lower() that leaves capitals as they are
LowerCharIgual(c) == c

LowerChar(c) ==
    CASE c = "H" -> "h"
      [] c = "O" -> "o"
      [] c = "L" -> "l"
      [] c = "A" -> "a"
      [] c = "R" -> "r"
      [] c = "E" -> "e"
      [] c = "F" -> "f"
      [] OTHER -> c

Lower(s) == [i \in 1..Len(s) |-> LowerChar(s[i])]

RECURSIVE LStrip(_)
LStrip(s) == IF s # <<>> /\ Head(s) \in Whitespace THEN LStrip(Tail(s)) ELSE s

RECURSIVE RStrip(_)
RStrip(s) ==
    IF s # <<>> /\ s[Len(s)] \in Whitespace
    THEN RStrip(SubSeq(s, 1, Len(s) - 1))
    ELSE s

Strip(s) == RStrip(LStrip(s))

Contains(s, sub) ==
    \E i \in 1..(Len(s) - Len(sub) + 1) : SubSeq(s, i, i + Len(sub) - 1) = sub

IsDigit(c) == c \in Digits

\* re.sub(r'[^\d]', '', numero)
SoloDigitos(s) == SelectSeq(s, IsDigit)

Hola == <<"h", "o", "l", "a">>

(***************************************************************************)
(* Messages a client may send.                                             *)
(***************************************************************************)
Mensajes ==
    { <<"H", "o", "l", "a">>,
      <<"5", "5", "5", "1", "2", "3", "4", "5", "6", "7">>,
      <<"5", "5", "5", "-", "1", "2", "3", "-", "4", "5", "6", "7">>,
      <<"1", "2", "3", "4", "5">>,
      <<"1", "5", "5", "5", "1", "2", "3", "4", "5", "6", "7">>,
      <<" ", "1", " ">>,
      <<"2">>,
      <<"3">>,
      <<"R", "E", "F", "9", "9", "9">>,
      <<" ">> }

(***************************************************************************)
(* JSON values returned by the verification backend, by shape.             *)
(*   t      type of the value                                              *)
(*   vacio  the value is falsy in Python ({}, [], "", 0, null)             *)
(*   v      content of a string                                            *)
(*   code   the "code" entry of a dict: absent, 0 or another number        *)
(*   data   the "data" entry of a dict: absent, null, a dict with every    *)
(*          field of a transaction ("dict"), with some of them ("parcial") *)
(*          or with none ("vacio")                                         *)
(*   first  the first element of a list: a dict, an empty dict, a number   *)
(*          or null                                                        *)
(***************************************************************************)
Json(t, vacio, v, code, data, first) ==
    [t |-> t, vacio |-> vacio, v |-> v, code |-> code, data |-> data, first |-> first]

None == Json("none", TRUE, "", "absent", "absent", "none")
DictVacio == Json("dict", TRUE, "", "absent", "absent", "none")
ListaVacia == Json("list", TRUE, "", "absent", "absent", "none")
StrTimeout == Json("str", FALSE, "timeout", "absent", "absent", "none")
Numero == Json("num", FALSE, "", "absent", "absent", "none")
Cliente == Json("dict", FALSE, "", "absent", "absent", "none")
ListaCliente == Json("list", FALSE, "", "absent", "absent", "dict")
ListaNumero == Json("list", FALSE, "", "absent", "absent", "num")
ListaNull == Json("list", FALSE, "", "absent", "absent", "null")
ListaDictVacio == Json("list", FALSE, "", "absent", "absent", "dict_vacio")
Recarga == Json("dict", FALSE, "", "0", "dict", "none")
RecargaSinData == Json("dict", FALSE, "", "0", "absent", "none")
RecargaDataNull == Json("dict", FALSE, "", "0", "null", "none")
RecargaDataVacia == Json("dict", FALSE, "", "0", "vacio", "none")
RecargaParcial == Json("dict", FALSE, "", "0", "parcial", "none")
RecargaCodigo1 == Json("dict", FALSE, "", "1", "dict", "none")
RecargaSinCodigo == Json("dict", FALSE, "", "absent", "dict", "none")

Truthy(j) == ~j.vacio

\* resultado_api[0]
Primero(j) ==
    CASE j.first = "dict" -> Cliente
      [] j.first = "num" -> Numero
      [] j.first = "dict_vacio" -> DictVacio
      [] OTHER -> None

CuerposCliente == {Cliente, ListaCliente, ListaNumero, ListaNull, ListaDictVacio,
                   DictVacio, ListaVacia}
CuerposRecarga == {Recarga, RecargaSinData, RecargaDataNull, RecargaDataVacia,
                   RecargaParcial, RecargaCodigo1, RecargaSinCodigo, ListaCliente,
                   DictVacio}

\* what requests.get does: a response with a status and a body, or an exception
Http(ev, body) == [ev |-> ev, body |-> body]

RespuestasHttp(cuerpos) ==
    {Http("200", b) : b \in cuerpos}
        \cup {Http(e, None) : e \in {"non200", "timeout", "conn_error", "json_error"}}

(***************************************************************************)
(* chat_bienestar.py: the verification client.                             *)
(***************************************************************************)
\* a client that takes a timeout for any other failed request
RealizarPeticionApiSinTimeout(http) ==
    CASE http.ev = "200" -> IF Truthy(http.body) THEN http.body ELSE DictVacio
      [] OTHER -> DictVacio

RealizarPeticionApi(http) ==
    CASE http.ev = "200" -> IF Truthy(http.body) THEN http.body ELSE DictVacio
      [] http.ev = "timeout" -> StrTimeout
      [] OTHER -> DictVacio

(***************************************************************************)
(* chat_bienestar.py: the dialog engine.                                   *)
(***************************************************************************)
INICIO == "inicio"
SOLICITAR_NUMERO == "solicitar_numero"
MENU_PRINCIPAL == "menu_principal"
SOLICITAR_REFERENCIA == "solicitar_referencia"
FINALIZADO == "finalizado"

ESTADOS == {INICIO, SOLICITAR_NUMERO, MENU_PRINCIPAL, SOLICITAR_REFERENCIA, FINALIZADO}

\* ChatBienestar()
ChatBienestar ==
    [estado |-> INICIO, numero_verificado |-> <<>>, datos_cliente |-> None]

\* the replies
MensajeBienvenida == "Hola! Bienvenido a Yo Soy Bienestar. Por favor comparte tu numero telefonico"
MensajeSaludaPrimero == "Por favor inicia la conversacion con 'Hola'"
MensajeNumeroInvalido == "Por favor ingresa un numero telefonico valido de 10 digitos."
MensajeTimeout == "La verificacion esta tomando mas tiempo de lo esperado."
MensajeVerificacionExitosa == "Verificacion exitosa! ... selecciona una opcion (1, 2 o 3):"
MensajeNoCliente == "No eres cliente, no podemos hacer mas."
MensajeOpcionRecarga == "Reportar Problema con Recarga. Por favor ingresa el numero de referencia"
MensajeOtroReporte == "Esta funcionalidad actualmente no esta desarrollada ni implementada."
MensajeSalir == "Gracias por usar nuestro servicio!"
MensajeOpcionInvalida == "Opcion no valida. Escribe 1, 2 o 3:"
MensajeReferenciaInvalida == "Por favor ingresa un numero de referencia valido."
MensajeTimeoutRecarga == "La verificacion de la recarga esta tomando mas tiempo de lo esperado."
MensajeInformacionRecarga == "Informacion de Recarga Encontrada"
MensajeReferenciaNoEncontrada == "Referencia No Encontrada"
MensajeFinalizada == "La conversacion ha finalizado."
MensajeEstadoNoValido == "Estado no valido"
SinRespuesta == ""

\* the fields of the transaction report, as texts; every reply but the report
\* has none
NoDisponible == <<"N", "/", "A">>
Dato == <<"d", "a", "t", "o">>
ReferenciaReal == <<"r", "e", "f", "1">>

SinInforme ==
    [referencia |-> <<>>, cliente |-> <<>>, telefono |-> <<>>, monto |-> <<>>,
     estado |-> <<>>, autorizacion |-> <<>>, creacion |-> <<>>, operacion |-> <<>>,
     vencimiento |-> <<>>]

\* How a (part of a) call of the engine ends: it returns a reply, it raises,
\* or it reaches the network call ("llamada") with the argument it sends.
Retorna(chat, respuesta) ==
    [fin |-> "return", chat |-> chat, respuesta |-> respuesta, informe |-> SinInforme,
     api |-> "none", arg |-> <<>>]
Lanza(chat) ==
    [fin |-> "raise", chat |-> chat, respuesta |-> SinRespuesta, informe |-> SinInforme,
     api |-> "none", arg |-> <<>>]
Llama(chat, api, arg) ==
    [fin |-> "llamada", chat |-> chat, respuesta |-> SinRespuesta, informe |-> SinInforme,
     api |-> api, arg |-> arg]

\* a validation that does not clean its input
ValidarNumeroSinLimpiar(numero) ==
    IF Len(numero) = 10 /\ \A i \in 1..Len(numero) : IsDigit(numero[i])
    THEN [es_valido |-> TRUE, numero_limpio |-> numero]
    ELSE [es_valido |-> FALSE, numero_limpio |-> <<>>]

ValidarNumeroTelefonico(numero) ==
    LET numero_limpio == SoloDigitos(numero) IN
    IF Len(numero_limpio) = 10 /\ \A i \in 1..Len(numero_limpio) : IsDigit(numero_limpio[i])
    THEN [es_valido |-> TRUE, numero_limpio |-> numero_limpio]
    ELSE [es_valido |-> FALSE, numero_limpio |-> <<>>]

ProcesarEstadoInicio(chat, mensaje) ==
    IF Contains(mensaje, Hola)
    THEN Retorna([chat EXCEPT !.estado = SOLICITAR_NUMERO], MensajeBienvenida)
    ELSE Retorna(chat, MensajeSaludaPrimero)

\* _procesar_estado_solicitar_numero up to the call of verificar_cliente_api
ProcesarEstadoSolicitarNumero(chat, mensaje) ==
    LET v == ValidarNumeroTelefonico(mensaje) IN
    IF ~v.es_valido
    THEN Retorna(chat, MensajeNumeroInvalido)
    ELSE Llama(chat, "cliente", v.numero_limpio)

\* _mensaje_verificacion_exitosa: self.datos_cliente.get(...)
MensajeVerificacionExitosaDe(chat) ==
    IF chat.datos_cliente.t = "dict"
    THEN Retorna(chat, MensajeVerificacionExitosa)
    ELSE Lanza(chat)

\* _procesar_estado_solicitar_numero from the result of verificar_cliente_api
VerificarClienteResultado(chat, numero_limpio, resultado_api) ==
    IF resultado_api = StrTimeout
    THEN Retorna([chat EXCEPT !.estado = FINALIZADO], MensajeTimeout)
    ELSE IF Truthy(resultado_api)
    THEN MensajeVerificacionExitosaDe(
            [chat EXCEPT !.datos_cliente =
                            IF resultado_api.t = "list" THEN Primero(resultado_api)
                                                        ELSE resultado_api,
                         !.numero_verificado = numero_limpio,
                         !.estado = MENU_PRINCIPAL])
    ELSE Retorna([chat EXCEPT !.estado = FINALIZADO], MensajeNoCliente)

ManejarOpcionRecarga(chat) ==
    Retorna([chat EXCEPT !.estado = SOLICITAR_REFERENCIA], MensajeOpcionRecarga)

\* an option 2 that leaves the conversation open
ManejarOpcionOtroReporteSigue(chat) ==
    Retorna(chat, MensajeOtroReporte)

ManejarOpcionOtroReporte(chat) ==
    Retorna([chat EXCEPT !.estado = FINALIZADO], MensajeOtroReporte)

ManejarOpcionSalir(chat) ==
    Retorna([chat EXCEPT !.estado = FINALIZADO], MensajeSalir)

\* a menu that starts the conversation over on an invalid option
ManejarOpcionInvalidaReinicia(chat) ==
    Retorna([chat EXCEPT !.estado = INICIO], MensajeOpcionInvalida)

ManejarOpcionInvalida(chat) ==
    Retorna(chat, MensajeOpcionInvalida)

ProcesarEstadoMenuPrincipal(chat, mensaje) ==
    CASE mensaje = <<"1">> -> ManejarOpcionRecarga(chat)
      [] mensaje = <<"2">> -> ManejarOpcionOtroReporte(chat)
      [] mensaje = <<"3">> -> ManejarOpcionSalir(chat)
      [] OTHER -> ManejarOpcionInvalida(chat)

\* _procesar_estado_solicitar_referencia up to the call of verificar_recarga_api
ProcesarEstadoSolicitarReferencia(chat, mensaje) ==
    LET referencia == Strip(mensaje) IN
    IF referencia = <<>>
    THEN Retorna(chat, MensajeReferenciaInvalida)
    ELSE Llama(chat, "recarga", referencia)

\* the keys of the "data" entry of a transaction, and those a payload carries
CamposRecarga ==
    {"paymentMethod", "customer", "amount", "status", "authorization", "creationDate",
     "operationDate", "dueDate"}

CamposDe(datos_recarga) ==
    CASE datos_recarga.data = "dict" -> CamposRecarga
      [] datos_recarga.data = "parcial" -> {"amount", "status"}
      [] OTHER -> {}

\* a get() without its default
GetSinDefecto(campos, campo, defecto) == IF campo \in campos THEN Dato ELSE <<>>

\* data.get(campo, defecto)
Get(campos, campo, defecto) == IF campo \in campos THEN Dato ELSE defecto

\* _formatear_fecha: "N/A" for a date that is not there
FormatearFecha(campos, campo) == IF campo \in campos THEN Dato ELSE NoDisponible

\* _formatear_informacion_recarga: data = datos_recarga.get("data", {}); data.get(...)
FormatearInformacionRecarga(chat, datos_recarga, referencia) ==
    LET data == CamposDe(datos_recarga) IN
    IF datos_recarga.data = "null"
    THEN Lanza(chat)
    ELSE [Retorna(chat, MensajeInformacionRecarga) EXCEPT !.informe =
            [referencia |-> IF "paymentMethod" \in data THEN ReferenciaReal ELSE referencia,
             cliente |-> Get(data, "customer", NoDisponible),
             telefono |-> Get(data, "customer", NoDisponible),
             monto |-> Get(data, "amount", NoDisponible),
             estado |-> Get(data, "status", NoDisponible),
             autorizacion |-> Get(data, "authorization", NoDisponible),
             creacion |-> FormatearFecha(data, "creationDate"),
             operacion |-> FormatearFecha(data, "operationDate"),
             vencimiento |-> FormatearFecha(data, "dueDate")]]

\* _procesar_estado_solicitar_referencia from the result of verificar_recarga_api
VerificarRecargaResultado(chat, referencia, resultado_recarga) ==
    IF resultado_recarga = StrTimeout
    THEN Retorna([chat EXCEPT !.estado = FINALIZADO], MensajeTimeoutRecarga)
    ELSE IF ~Truthy(resultado_recarga)
    THEN Retorna([chat EXCEPT !.estado = FINALIZADO], MensajeReferenciaNoEncontrada)
    ELSE IF resultado_recarga.t # "dict"
    THEN Lanza(chat)
    ELSE IF resultado_recarga.code = "0"
    THEN FormatearInformacionRecarga([chat EXCEPT !.estado = FINALIZADO], resultado_recarga,
                                     referencia)
    ELSE Retorna([chat EXCEPT !.estado = FINALIZADO], MensajeReferenciaNoEncontrada)

\* procesar_mensaje without its test of the final state
ProcesarMensajeSinFinal(chat, mensaje) ==
    LET mensaje_limpio == Lower(Strip(mensaje)) IN
    CASE chat.estado = INICIO -> ProcesarEstadoInicio(chat, mensaje_limpio)
      [] chat.estado = SOLICITAR_NUMERO ->
           ProcesarEstadoSolicitarNumero(chat, mensaje_limpio)
      [] chat.estado = MENU_PRINCIPAL ->
           ProcesarEstadoMenuPrincipal(chat, mensaje_limpio)
      [] chat.estado = SOLICITAR_REFERENCIA ->
           ProcesarEstadoSolicitarReferencia(chat, mensaje_limpio)
      [] OTHER -> Retorna(chat, MensajeEstadoNoValido)

\* procesar_mensaje up to its return or to the network call of its handler
ProcesarMensaje(chat, mensaje) ==
    LET mensaje_limpio == Lower(Strip(mensaje)) IN
    IF chat.estado = FINALIZADO
    THEN Retorna(chat, MensajeFinalizada)
    ELSE CASE chat.estado = INICIO -> ProcesarEstadoInicio(chat, mensaje_limpio)
           [] chat.estado = SOLICITAR_NUMERO ->
                ProcesarEstadoSolicitarNumero(chat, mensaje_limpio)
           [] chat.estado = MENU_PRINCIPAL ->
                ProcesarEstadoMenuPrincipal(chat, mensaje_limpio)
           [] chat.estado = SOLICITAR_REFERENCIA ->
                ProcesarEstadoSolicitarReferencia(chat, mensaje_limpio)
           [] OTHER -> Retorna(chat, MensajeEstadoNoValido)

\* procesar_mensaje from the result of the network call to its return
ProcesarMensajeResultado(chat, api, arg, resultado) ==
    IF api = "cliente"
    THEN VerificarClienteResultado(chat, arg, resultado)
    ELSE VerificarRecargaResultado(chat, arg, resultado)

(***************************************************************************)
(* Session identifiers: none (the field is absent), chosen by the client,  *)
(* or produced by uuid.uuid4().                                            *)
(***************************************************************************)
SinSid == [src |-> "none", n |-> 0]
SidCliente == [src |-> "client", n |-> 1]
SidCliente2 == [src |-> "client", n |-> 2]

\* a generator that repeats itself
Uuid4Fijo == [src |-> "uuid", n |-> 1]

\* str(uuid.uuid4()): an identifier that was never produced before
Uuid4 == [src |-> "uuid", n |-> uuids + 1]

\* the identifiers that responses have carried: those uuid.uuid4() produced,
\* but for the ones of requests that have not returned yet
SidsEmitidos ==
    {u \in {[src |-> "uuid", n |-> k] : k \in 1..uuids} :
        \A t \in DOMAIN pc : ~(hilo[t].sid = u /\ hilo[t].session_id = SinSid)}

\* the identifiers a client can put in a request: none, one of its own making,
\* or one that a response has carried
SidsDeCliente == {SinSid, SidCliente, SidCliente2} \cup SidsEmitidos

(***************************************************************************)
(* app.py: the session registry.                                           *)
(***************************************************************************)
SESSION_TIMEOUT_SECONDS == 1200

Libre == "libre"

HiloInicial ==
    [session_id |-> SinSid, now |-> 0, sid |-> SinSid, respuesta |-> SinRespuesta,
     informe |-> SinInforme, status |-> 0, api |-> "none", arg |-> <<>>, self |-> 0,
     active_sessions |-> 0, texto |-> <<>>, ev |-> "", resultado |-> None]

\* a new entry whose dialog has already taken the greeting
NuevaEntradaSaludada ==
    [chat |-> [ChatBienestar EXCEPT !.estado = SOLICITAR_NUMERO], last_active |-> clock]

\* sessions[sid] = {"chat": ChatBienestar(), "last_active": time.time()}
NuevaEntrada == [chat |-> ChatBienestar, last_active |-> clock]

Poner(mapa, k, v) == [x \in DOMAIN mapa \cup {k} |-> IF x = k THEN v ELSE mapa[x]]
\* a deletion that empties the map
QuitarTodo(mapa, ks) == [x \in {} |-> mapa[x]]

Quitar(mapa, ks) == [x \in DOMAIN mapa \ ks |-> mapa[x]]

\* a sweep that deletes a session as soon as its idle time reaches the timeout
ExpiredAlLimite(now) ==
    {s \in DOMAIN sessions : now - sessions[s].last_active >= SESSION_TIMEOUT_SECONDS}

\* the sessions purge_expired_sessions deletes, for its reading now of the clock
Expired(now) ==
    {s \in DOMAIN sessions : now - sessions[s].last_active > SESSION_TIMEOUT_SECONDS}

\* a block entered without waiting for the lock
AcquireSinEsperar(t) == lock' = t

\* a block that is left without releasing the lock
ReleaseNunca(t) == lock' = lock

\* with lock: entering and leaving the block
Acquire(t) == lock = Libre /\ lock' = t
Release(t) == lock' = Libre

Init ==
    /\ sessions = <<>>
    /\ lock = Libre
    /\ sesiones = <<>>
    /\ heap = <<>>
    /\ bot = ChatBienestar
    /\ clock = 0
    /\ uuids = 0
    /\ objetos = 0
    /\ pc = [t \in Threads |-> "idle"]
    /\ hilo = [t \in Threads |-> HiloInicial]
    /\ requests = 0
    /\ ticks = 0

\* time passes
Tick ==
    /\ ticks < MaxTicks
    /\ \E d \in {SESSION_TIMEOUT_SECONDS, SESSION_TIMEOUT_SECONDS + 1} : clock' = clock + d
    /\ ticks' = ticks + 1
    /\ UNCHANGED <<bot, sessions, lock, sesiones, heap, uuids, objetos, pc, hilo, requests>>

\* POST /mensajear arrives; purge_expired_sessions reads the clock
Mensajear(t, max) ==
    /\ pc[t] = "idle"
    /\ requests < max
    /\ \E s \in SidsDeCliente :
          hilo' = [hilo EXCEPT ![t] = [HiloInicial EXCEPT !.session_id = s, !.now = clock]]
    /\ pc' = [pc EXCEPT ![t] = "purge_lock"]
    /\ requests' = requests + 1
    /\ UNCHANGED <<bot, sessions, lock, sesiones, heap, clock, uuids, objetos, ticks>>

\* purge_expired_sessions: with lock
PurgeAcquire(t) ==
    /\ pc[t] = "purge_lock"
    /\ Acquire(t)
    /\ pc' = [pc EXCEPT ![t] = "purge"]
    /\ UNCHANGED <<bot, sessions, sesiones, heap, clock, uuids, objetos, hilo, requests, ticks>>

\* purge_expired_sessions: the scan and the deletions; then sid = data.session_id,
\* replaced by a new identifier when it is absent
PurgeExpiredSessions(t) ==
    /\ pc[t] = "purge"
    /\ sessions' = Quitar(sessions, Expired(hilo[t].now))
    /\ Release(t)
    /\ IF hilo[t].session_id = SinSid
       THEN /\ hilo' = [hilo EXCEPT ![t].sid = Uuid4]
            /\ uuids' = uuids + 1
            /\ pc' = [pc EXCEPT ![t] = "crear_lock"]
       ELSE /\ hilo' = [hilo EXCEPT ![t].sid = hilo[t].session_id]
            /\ uuids' = uuids
            /\ pc' = [pc EXCEPT ![t] = "buscar_lock"]
    /\ UNCHANGED <<bot, sesiones, heap, clock, objetos, requests, ticks>>

\* GET /nueva_sesion arrives
NuevaSesion(t, max) ==
    /\ pc[t] = "idle"
    /\ requests < max
    /\ hilo' = [hilo EXCEPT ![t] = [HiloInicial EXCEPT !.sid = Uuid4]]
    /\ uuids' = uuids + 1
    /\ pc' = [pc EXCEPT ![t] = "crear_lock"]
    /\ requests' = requests + 1
    /\ UNCHANGED <<bot, sessions, lock, sesiones, heap, clock, objetos, ticks>>

\* procesar_mensaje without session id, nueva_sesion: with lock
CrearAcquire(t) ==
    /\ pc[t] = "crear_lock"
    /\ Acquire(t)
    /\ pc' = [pc EXCEPT ![t] = "crear"]
    /\ UNCHANGED <<bot, sessions, sesiones, heap, clock, uuids, objetos, hilo, requests, ticks>>

\* procesar_mensaje without session id, nueva_sesion: the new entry
Crear(t) ==
    /\ pc[t] = "crear"
    /\ sessions' = Poner(sessions, hilo[t].sid, NuevaEntrada)
    /\ objetos' = objetos + 1
    /\ Release(t)
    /\ hilo' = [hilo EXCEPT ![t].respuesta = MensajeBienvenida, ![t].status = 200]
    /\ pc' = [pc EXCEPT ![t] = "responder"]
    /\ UNCHANGED <<bot, sesiones, heap, clock, uuids, requests, ticks>>

\* procesar_mensaje with a session id: with lock
BuscarAcquire(t) ==
    /\ pc[t] = "buscar_lock"
    /\ Acquire(t)
    /\ pc' = [pc EXCEPT ![t] = "buscar"]
    /\ UNCHANGED <<bot, sessions, sesiones, heap, clock, uuids, objetos, hilo, requests, ticks>>

\* procesar_mensaje with a session id: sessions.get(sid), then a new entry or
\* the dialog of the session, up to its reply or to its network call
Buscar(t) ==
    /\ pc[t] = "buscar"
    /\ LET sid == hilo[t].sid IN
       IF sid \notin DOMAIN sessions
       THEN /\ sessions' = Poner(sessions, sid, NuevaEntrada)
            /\ objetos' = objetos + 1
            /\ Release(t)
            /\ hilo' = [hilo EXCEPT ![t].respuesta = MensajeBienvenida, ![t].status = 200]
            /\ pc' = [pc EXCEPT ![t] = "responder"]
       ELSE \E mensaje \in Mensajes :
            LET r == ProcesarMensaje(sessions[sid].chat, mensaje) IN
            /\ sessions' = [sessions EXCEPT ![sid] = [chat |-> r.chat, last_active |-> clock]]
            /\ objetos' = objetos
            /\ IF r.fin = "llamada"
               THEN /\ lock' = lock
                    /\ hilo' = [hilo EXCEPT ![t].api = r.api, ![t].arg = r.arg]
                    /\ pc' = [pc EXCEPT ![t] = "api"]
               ELSE /\ Release(t)
                    /\ hilo' = [hilo EXCEPT ![t].respuesta = r.respuesta,
                                            ![t].informe = r.informe,
                                            ![t].status = IF r.fin = "raise" THEN 500 ELSE 200]
                    /\ pc' = [pc EXCEPT ![t] = "responder"]
    /\ UNCHANGED <<bot, sesiones, heap, clock, uuids, requests, ticks>>

\* the verification backend answers (or not) and the dialog finishes the message
ApiResponde(t) ==
    /\ pc[t] = "api"
    /\ \E http \in RespuestasHttp(IF hilo[t].api = "cliente" THEN CuerposCliente
                                                             ELSE CuerposRecarga) :
          LET sid == hilo[t].sid
              r == ProcesarMensajeResultado(sessions[sid].chat, hilo[t].api, hilo[t].arg,
                                            RealizarPeticionApi(http))
          IN /\ sessions' = [sessions EXCEPT ![sid].chat = r.chat]
             /\ hilo' = [hilo EXCEPT ![t].respuesta = r.respuesta,
                                     ![t].informe = r.informe,
                                     ![t].status = IF r.fin = "raise" THEN 500 ELSE 200]
    /\ Release(t)
    /\ pc' = [pc EXCEPT ![t] = "responder"]
    /\ UNCHANGED <<bot, sesiones, heap, clock, uuids, objetos, requests, ticks>>

\* GET /health arrives
Health(t, max) ==
    /\ pc[t] = "idle"
    /\ requests < max
    /\ hilo' = [hilo EXCEPT ![t] = HiloInicial]
    /\ pc' = [pc EXCEPT ![t] = "health_lock"]
    /\ requests' = requests + 1
    /\ UNCHANGED <<bot, sessions, lock, sesiones, heap, clock, uuids, objetos, ticks>>

\* health: with lock
HealthAcquire(t) ==
    /\ pc[t] = "health_lock"
    /\ Acquire(t)
    /\ pc' = [pc EXCEPT ![t] = "health"]
    /\ UNCHANGED <<bot, sessions, sesiones, heap, clock, uuids, objetos, hilo, requests, ticks>>

\* health: active_sessions = len(sessions)
HealthContar(t) ==
    /\ pc[t] = "health"
    /\ hilo' = [hilo EXCEPT ![t].active_sessions = Cardinality(DOMAIN sessions),
                            ![t].status = 200]
    /\ Release(t)
    /\ pc' = [pc EXCEPT ![t] = "responder"]
    /\ UNCHANGED <<bot, sessions, sesiones, heap, clock, uuids, objetos, requests, ticks>>

\* the handler returns its response
Responder(t) ==
    /\ pc[t] = "responder"
    /\ hilo' = [hilo EXCEPT ![t] = HiloInicial]
    /\ pc' = [pc EXCEPT ![t] = "idle"]
    /\ UNCHANGED <<bot, sessions, lock, sesiones, heap, clock, uuids, objetos, requests, ticks>>

\* app.py served by two worker threads
Next ==
    \/ Tick
    \/ \E t \in Threads : Mensajear(t, MaxRequests)
    \/ \E t \in Threads : PurgeAcquire(t)
    \/ \E t \in Threads : PurgeExpiredSessions(t)
    \/ \E t \in Threads : NuevaSesion(t, MaxRequests)
    \/ \E t \in Threads : CrearAcquire(t)
    \/ \E t \in Threads : Crear(t)
    \/ \E t \in Threads : BuscarAcquire(t)
    \/ \E t \in Threads : Buscar(t)
    \/ \E t \in Threads : ApiResponde(t)
    \/ \E t \in Threads : Health(t, MaxRequests)
    \/ \E t \in Threads : HealthAcquire(t)
    \/ \E t \in Threads : HealthContar(t)
    \/ \E t \in Threads : Responder(t)

Spec == Init /\ [][Next]_vars

\* the steps a worker thread takes once it has a request: it runs as long as
\* it is not waiting for the lock, and the verification call returns or
\* times out (requests.get has a timeout)
Paso(t) ==
    \/ PurgeAcquire(t)
    \/ PurgeExpiredSessions(t)
    \/ CrearAcquire(t)
    \/ Crear(t)
    \/ BuscarAcquire(t)
    \/ Buscar(t)
    \/ ApiResponde(t)
    \/ HealthAcquire(t)
    \/ HealthContar(t)
    \/ Responder(t)

\* app.py served by two worker threads that keep running
SpecVivo == Init /\ [][Next]_vars /\ \A t \in Threads : WF_vars(Paso(t))

\* app.py with its requests served one after the other
NextSecuencial ==
    \/ Tick
    \/ Mensajear("t1", MaxSecuencial)
    \/ PurgeAcquire("t1")
    \/ PurgeExpiredSessions("t1")
    \/ NuevaSesion("t1", MaxSecuencial)
    \/ CrearAcquire("t1")
    \/ Crear("t1")
    \/ BuscarAcquire("t1")
    \/ Buscar("t1")
    \/ ApiResponde("t1")
    \/ Health("t1", MaxSecuencial)
    \/ HealthAcquire("t1")
    \/ HealthContar("t1")
    \/ Responder("t1")

SpecSecuencial == Init /\ [][NextSecuencial]_vars

(***************************************************************************)
(* server.py: one ChatBienestar per session identifier, in a dictionary    *)
(* that its handlers read and write without a lock.                        *)
(***************************************************************************)
\* POST /mensajear arrives: if session_id not in sesiones
ServerMensajear(t) ==
    /\ pc[t] = "idle"
    /\ requests < MaxRequests
    /\ \E s \in {SidCliente} \cup SidsEmitidos :
          /\ hilo' = [hilo EXCEPT ![t] = [HiloInicial EXCEPT !.session_id = s, !.sid = s]]
          /\ pc' = [pc EXCEPT ![t] = IF s \in DOMAIN sesiones THEN "srv_procesar"
                                                               ELSE "srv_crear"]
    /\ requests' = requests + 1
    /\ UNCHANGED <<bot, sessions, lock, sesiones, heap, clock, uuids, objetos, ticks>>

\* mensajear: sesiones[session_id] = ChatBienestar()
ServerCrear(t) ==
    /\ pc[t] = "srv_crear"
    /\ heap' = Append(heap, ChatBienestar)
    /\ sesiones' = Poner(sesiones, hilo[t].sid, Len(heap) + 1)
    /\ pc' = [pc EXCEPT ![t] = "srv_procesar"]
    /\ UNCHANGED <<bot, sessions, lock, clock, uuids, objetos, hilo, requests, ticks>>

\* mensajear: sesiones[session_id].procesar_mensaje(data.mensaje), up to its
\* reply or to its network call
ServerProcesar(t) ==
    /\ pc[t] = "srv_procesar"
    /\ IF hilo[t].sid \notin DOMAIN sesiones
       THEN /\ hilo' = [hilo EXCEPT ![t].status = 500]
            /\ pc' = [pc EXCEPT ![t] = "responder"]
            /\ heap' = heap
       ELSE \E mensaje \in Mensajes :
            LET self == sesiones[hilo[t].sid]
                r == ProcesarMensaje(heap[self], mensaje)
            IN /\ heap' = [heap EXCEPT ![self] = r.chat]
               /\ IF r.fin = "llamada"
                  THEN /\ hilo' = [hilo EXCEPT ![t].self = self, ![t].api = r.api,
                                               ![t].arg = r.arg]
                       /\ pc' = [pc EXCEPT ![t] = "srv_api"]
                  ELSE /\ hilo' = [hilo EXCEPT ![t].respuesta = r.respuesta,
                                               ![t].informe = r.informe,
                                               ![t].status = IF r.fin = "raise" THEN 500
                                                                                ELSE 200]
                       /\ pc' = [pc EXCEPT ![t] = "responder"]
    /\ UNCHANGED <<bot, sessions, lock, sesiones, clock, uuids, objetos, requests, ticks>>

\* the verification backend answers (or not) and the dialog finishes the message
ServerApiResponde(t) ==
    /\ pc[t] = "srv_api"
    /\ \E http \in RespuestasHttp(IF hilo[t].api = "cliente" THEN CuerposCliente
                                                             ELSE CuerposRecarga) :
          LET self == hilo[t].self
              r == ProcesarMensajeResultado(heap[self], hilo[t].api, hilo[t].arg,
                                            RealizarPeticionApi(http))
          IN /\ heap' = [heap EXCEPT ![self] = r.chat]
             /\ hilo' = [hilo EXCEPT ![t].respuesta = r.respuesta,
                                     ![t].informe = r.informe,
                                     ![t].status = IF r.fin = "raise" THEN 500 ELSE 200]
    /\ pc' = [pc EXCEPT ![t] = "responder"]
    /\ UNCHANGED <<bot, sessions, lock, sesiones, clock, uuids, objetos, requests, ticks>>

\* GET /nueva_sesion
ServerNuevaSesion(t) ==
    /\ pc[t] = "idle"
    /\ requests < MaxRequests
    /\ heap' = Append(heap, ChatBienestar)
    /\ sesiones' = Poner(sesiones, Uuid4, Len(heap) + 1)
    /\ uuids' = uuids + 1
    /\ hilo' = [hilo EXCEPT ![t] = [HiloInicial EXCEPT !.sid = Uuid4, !.status = 200]]
    /\ pc' = [pc EXCEPT ![t] = "responder"]
    /\ requests' = requests + 1
    /\ UNCHANGED <<bot, sessions, lock, clock, objetos, ticks>>

\* GET /cerrar_sesion/{session_id} arrives: if session_id in sesiones
ServerCerrarSesion(t) ==
    /\ pc[t] = "idle"
    /\ requests < MaxRequests
    /\ \E s \in {SidCliente} \cup SidsEmitidos :
          /\ hilo' = [hilo EXCEPT ![t] = [HiloInicial EXCEPT !.session_id = s, !.sid = s,
                                                          !.status = 200]]
          /\ pc' = [pc EXCEPT ![t] = IF s \in DOMAIN sesiones THEN "srv_borrar"
                                                               ELSE "responder"]
    /\ requests' = requests + 1
    /\ UNCHANGED <<bot, sessions, lock, sesiones, heap, clock, uuids, objetos, ticks>>

\* cerrar_sesion: del sesiones[session_id]
ServerBorrar(t) ==
    /\ pc[t] = "srv_borrar"
    /\ sesiones' = Quitar(sesiones, {hilo[t].sid})
    /\ hilo' = [hilo EXCEPT ![t].status = IF hilo[t].sid \in DOMAIN sesiones THEN 200
                                                                             ELSE 500]
    /\ pc' = [pc EXCEPT ![t] = "responder"]
    /\ UNCHANGED <<bot, sessions, lock, heap, clock, uuids, objetos, requests, ticks>>

\* server.py served by two worker threads
NextServer ==
    \/ \E t \in Threads : ServerMensajear(t)
    \/ \E t \in Threads : ServerCrear(t)
    \/ \E t \in Threads : ServerProcesar(t)
    \/ \E t \in Threads : ServerApiResponde(t)
    \/ \E t \in Threads : ServerNuevaSesion(t)
    \/ \E t \in Threads : ServerCerrarSesion(t)
    \/ \E t \in Threads : ServerBorrar(t)
    \/ \E t \in Threads : Responder(t)

SpecServer == Init /\ [][NextServer]_vars

(***************************************************************************)
(* main.py: one ChatBienestar, bot, for every request of the process.      *)
(***************************************************************************)
\* POST /chat arrives: bot.procesar_mensaje(mensaje.texto), up to its reply or
\* to its network call
MainProcesar(t, max) ==
    /\ pc[t] = "idle"
    /\ requests < max
    /\ \E texto \in Mensajes :
          LET r == ProcesarMensaje(bot, texto) IN
          /\ bot' = r.chat
          /\ IF r.fin = "llamada"
             THEN /\ hilo' = [hilo EXCEPT ![t] = [HiloInicial EXCEPT !.texto = texto,
                                                                   !.api = r.api,
                                                                   !.arg = r.arg]]
                  /\ pc' = [pc EXCEPT ![t] = "main_api"]
             ELSE /\ hilo' = [hilo EXCEPT ![t] =
                                [HiloInicial EXCEPT !.texto = texto,
                                                    !.respuesta = r.respuesta,
                                                    !.informe = r.informe,
                                                    !.status = IF r.fin = "raise" THEN 500
                                                                                  ELSE 200]]
                  /\ pc' = [pc EXCEPT ![t] = "responder"]
    /\ requests' = requests + 1
    /\ UNCHANGED <<sessions, lock, sesiones, heap, clock, uuids, objetos, ticks>>

\* the verification backend answers (or not) and bot finishes the message
MainApiResponde(t) ==
    /\ pc[t] = "main_api"
    /\ \E http \in RespuestasHttp(IF hilo[t].api = "cliente" THEN CuerposCliente
                                                             ELSE CuerposRecarga) :
          LET resultado == RealizarPeticionApi(http)
              r == ProcesarMensajeResultado(bot, hilo[t].api, hilo[t].arg, resultado)
          IN /\ bot' = r.chat
             /\ hilo' = [hilo EXCEPT ![t].ev = http.ev,
                                     ![t].resultado = resultado,
                                     ![t].respuesta = r.respuesta,
                                     ![t].informe = r.informe,
                                     ![t].status = IF r.fin = "raise" THEN 500 ELSE 200]
    /\ pc' = [pc EXCEPT ![t] = "responder"]
    /\ UNCHANGED <<sessions, lock, sesiones, heap, clock, uuids, objetos, requests, ticks>>

\* main.py with its requests served one after the other
NextMain ==
    \/ MainProcesar("t1", MaxSecuencial)
    \/ MainApiResponde("t1")
    \/ Responder("t1")

SpecMain == Init /\ [][NextMain]_vars

(***************************************************************************)
(* Properties.                                                             *)
(***************************************************************************)
\* the order of the states of a dialog
Orden(estado) ==
    CASE estado = INICIO -> 0
      [] estado = SOLICITAR_NUMERO -> 1
      [] estado = MENU_PRINCIPAL -> 2
      [] estado = SOLICITAR_REFERENCIA -> 3
      [] estado = FINALIZADO -> 4

\* C1: in no step does the state of the dialog of a session move to an earlier
\* state of the order INICIO < SOLICITAR_NUMERO < MENU_PRINCIPAL <
\* SOLICITAR_REFERENCIA < FINALIZADO, whatever the messages and the outcomes
\* of the verifications
C1_EstadoSoloAvanza ==
    [][\A s \in DOMAIN sessions \cap DOMAIN sessions' :
          Orden(sessions'[s].chat.estado) >= Orden(sessions[s].chat.estado)]_vars

\* a dialog went through every state: its transaction report was just made
C1_Testigo ==
    \E t \in Threads :
        /\ pc[t] = "responder"
        /\ hilo[t].respuesta = MensajeInformacionRecarga
        /\ hilo[t].sid \in DOMAIN sessions
        /\ sessions[hilo[t].sid].chat.estado = FINALIZADO

\* C2: a message for a dialog in FINALIZADO gets the fixed closing reply
\* without a verification call, and no step changes the state, the verified
\* phone or the customer record of a dialog in FINALIZADO
C2_FinalizadoAbsorbente ==
    [][/\ \A s \in DOMAIN sessions \cap DOMAIN sessions' :
             sessions[s].chat.estado = FINALIZADO => sessions'[s].chat = sessions[s].chat
       /\ \A t \in Threads :
             (/\ pc[t] = "buscar"
              /\ pc'[t] # "buscar"
              /\ hilo[t].sid \in DOMAIN sessions
              /\ sessions[hilo[t].sid].chat.estado = FINALIZADO)
                => /\ pc'[t] = "responder"
                   /\ hilo'[t].respuesta = MensajeFinalizada
                   /\ hilo'[t].status = 200]_vars

\* a message was answered by a dialog in FINALIZADO
C2_Testigo ==
    \E t \in Threads :
        /\ pc[t] = "responder"
        /\ hilo[t].respuesta = MensajeFinalizada
        /\ hilo[t].sid \in DOMAIN sessions
        /\ sessions[hilo[t].sid].chat.estado = FINALIZADO

\* C3: while a request is inside a verification call, no request holds the
\* lock of the registry
C3_LlamadaSinLock ==
    \A t \in Threads : pc[t] = "api" => lock = Libre

\* C4: a step that creates a session answers with the welcome text and leaves
\* the dialog of the new session in SOLICITAR_NUMERO, as if it had processed a
\* greeting
C4_SesionNuevaYaSaludada ==
    [][\A t \in Threads :
          (/\ pc[t] \in {"crear", "buscar"}
           /\ hilo[t].sid \notin DOMAIN sessions
           /\ hilo[t].sid \in DOMAIN sessions')
            => /\ hilo'[t].respuesta = MensajeBienvenida
               /\ sessions'[hilo[t].sid].chat.estado = SOLICITAR_NUMERO]_vars

\* C5: when a message request looks its session id up, the registry holds no
\* entry under that id that has been idle longer than the timeout
C5_SinEntradaVencidaAlBuscar ==
    \A t \in Threads :
        (pc[t] = "buscar" /\ hilo[t].sid \in DOMAIN sessions)
            => clock - sessions[hilo[t].sid].last_active <= SESSION_TIMEOUT_SECONDS

\* C6: no step removes a session whose idle time (the clock minus its
\* last_active) is at most the timeout, and a sweep leaves every session it
\* does not remove as it was
C6_SinExpulsionPrematura ==
    [][/\ \A s \in DOMAIN sessions :
             clock - sessions[s].last_active <= SESSION_TIMEOUT_SECONDS
                => s \in DOMAIN sessions'
       /\ \A t \in Threads :
             (pc[t] = "purge" /\ pc'[t] # "purge")
                => \A s \in DOMAIN sessions' :
                      s \in DOMAIN sessions /\ sessions'[s] = sessions[s]]_vars

\* a sweep has just kept a session that was idle for exactly the timeout
C6_Testigo ==
    \E t \in Threads, s \in DOMAIN sessions :
        /\ pc[t] \in {"crear_lock", "buscar_lock"}
        /\ hilo[t].now - sessions[s].last_active = SESSION_TIMEOUT_SECONDS

\* C7: as long as no session can have been idle past the timeout, the registry
\* holds one entry per ChatBienestar constructed, and the session each
\* finished creation answers with is in the registry
C7_CreacionesSinPerdida ==
    clock <= SESSION_TIMEOUT_SECONDS
        => /\ Cardinality(DOMAIN sessions) = objetos
           /\ \A t \in Threads :
                 (pc[t] = "responder" /\ hilo[t].respuesta = MensajeBienvenida)
                    => hilo[t].sid \in DOMAIN sessions

\* two creations that ran at the same time have both finished, and a third
\* session exists
C7_Testigo ==
    /\ clock <= SESSION_TIMEOUT_SECONDS
    /\ Cardinality(DOMAIN sessions) = 3
    /\ \E t1, t2 \in Threads :
          /\ t1 # t2
          /\ pc[t1] = "responder" /\ hilo[t1].respuesta = MensajeBienvenida
          /\ pc[t2] = "responder" /\ hilo[t2].respuesta = MensajeBienvenida
          /\ hilo[t1].sid # hilo[t2].sid
          /\ sessions[hilo[t1].sid].chat.estado = INICIO
          /\ sessions[hilo[t2].sid].chat.estado = INICIO

\* C8: procesar_mensaje of the dialog never raises: no request ends with the
\* status 500
C8_NuncaLanza ==
    \A t \in Threads : pc[t] = "responder" => hilo[t].status # 500

\* the places of a handler that read or write the map sessions
EnSeccion(t) == pc[t] \in {"purge", "crear", "buscar", "health"}

\* C9: a request that reads or writes the map sessions holds the lock, so at
\* most one request does so at any time
C9_MapaBajoLock ==
    /\ \A t \in Threads : EnSeccion(t) => lock = t
    /\ Cardinality({t \in Threads : EnSeccion(t)}) <= 1

\* a request is in the lookup while another one waits for the lock
C9_Testigo ==
    \E t1, t2 \in Threads :
        /\ pc[t1] = "buscar"
        /\ pc[t2] \in {"purge_lock", "crear_lock", "buscar_lock", "health_lock"}

\* C10: no two requests are inside procesar_mensaje of the same dialog at the
\* same time
C10_DialogoExclusivo ==
    \A t1, t2 \in Threads :
        (t1 # t2 /\ pc[t1] = "srv_api" /\ pc[t2] = "srv_api")
            => hilo[t1].self # hilo[t2].self

\* C11: the customer record of the dialog is non-empty exactly when the dialog
\* is past the phone verification: unset in INICIO and SOLICITAR_NUMERO,
\* non-empty in MENU_PRINCIPAL and SOLICITAR_REFERENCIA, and in FINALIZADO
\* non-empty exactly when a phone was verified
C11_DatosClienteSegunEstado ==
    /\ bot.estado \in {INICIO, SOLICITAR_NUMERO} => bot.datos_cliente = None
    /\ bot.estado \in {MENU_PRINCIPAL, SOLICITAR_REFERENCIA} => Truthy(bot.datos_cliente)
    /\ bot.estado = FINALIZADO
          => (Truthy(bot.datos_cliente) <=> bot.numero_verificado # <<>>)

\* C12: the verified phone of the dialog is unset or has exactly 10 digits; it
\* becomes set only when a customer verification made in SOLICITAR_NUMERO
\* answers, in the same step as the customer record becomes non-empty; and
\* once it is set no step changes it or the customer record
C12_NumeroVerificadoUnaVez ==
    [][/\ \/ bot'.numero_verificado = <<>>
          \/ /\ Len(bot'.numero_verificado) = 10
             /\ \A i \in 1..10 : bot'.numero_verificado[i] \in Digits
       /\ (bot.numero_verificado = <<>> /\ bot'.numero_verificado # <<>>)
             => /\ bot.estado = SOLICITAR_NUMERO
                /\ \E t \in Threads : pc[t] = "main_api" /\ hilo[t].api = "cliente"
                /\ bot.datos_cliente = None
                /\ Truthy(bot'.datos_cliente)
       /\ bot'.datos_cliente # bot.datos_cliente
             => bot.numero_verificado = <<>> /\ bot'.numero_verificado # <<>>
       /\ bot.numero_verificado # <<>>
             => /\ bot'.numero_verificado = bot.numero_verificado
                /\ bot'.datos_cliente = bot.datos_cliente]_vars

\* C13: no retries. A customer lookup is made only from SOLICITAR_NUMERO and a
\* transaction lookup only from SOLICITAR_REFERENCIA; the step in which a
\* lookup answers moves the dialog past the state that made it, to FINALIZADO
\* when the outcome is not-found or timeout; and the dialog never moves back:
\* so a conversation issues at most one lookup of each kind
C13_SinReintentos ==
    [][/\ Orden(bot'.estado) >= Orden(bot.estado)
       /\ \A t \in Threads :
             /\ (pc[t] # "main_api" /\ pc'[t] = "main_api")
                   => bot.estado = IF hilo'[t].api = "cliente" THEN SOLICITAR_NUMERO
                                                               ELSE SOLICITAR_REFERENCIA
             /\ (pc[t] = "main_api" /\ pc'[t] # "main_api")
                   => /\ hilo'[t].resultado \in {StrTimeout, DictVacio}
                            => bot'.estado = FINALIZADO
                      /\ hilo[t].api = "cliente" => bot'.estado # SOLICITAR_NUMERO
                      /\ hilo[t].api = "recarga" => bot'.estado = FINALIZADO]_vars

\* C14: when a verification call has answered, a timeout and a not-found
\* outcome both leave the dialog in FINALIZADO, with the timeout reply and the
\* not-found reply of the state that made the call, which are different
\* texts; a non-200 response, a connection error and an unreadable body are
\* answered as not-found
C14_TresResultados ==
    /\ MensajeTimeout # MensajeNoCliente
    /\ MensajeTimeoutRecarga # MensajeReferenciaNoEncontrada
    /\ \A t \in Threads :
          (pc[t] = "responder" /\ hilo[t].api # "none")
             => /\ hilo[t].ev = "timeout"
                      => /\ bot.estado = FINALIZADO
                         /\ hilo[t].status = 200
                         /\ hilo[t].respuesta = IF hilo[t].api = "cliente"
                                                THEN MensajeTimeout
                                                ELSE MensajeTimeoutRecarga
                /\ (\/ hilo[t].ev \in {"non200", "conn_error", "json_error"}
                    \/ hilo[t].ev = "200" /\ hilo[t].resultado = DictVacio)
                      => /\ bot.estado = FINALIZADO
                         /\ hilo[t].status = 200
                         /\ hilo[t].respuesta = IF hilo[t].api = "cliente"
                                                THEN MensajeNoCliente
                                                ELSE MensajeReferenciaNoEncontrada

\* a transaction lookup has timed out
C14_Testigo ==
    \E t \in Threads :
        /\ pc[t] = "responder"
        /\ hilo[t].api = "recarga"
        /\ hilo[t].ev = "timeout"
        /\ hilo[t].respuesta = MensajeTimeoutRecarga
        /\ bot.estado = FINALIZADO

\* C15 as stated: a message request that finds no entry for its session
\* creates it under an identifier of uuid.uuid4() that is in use nowhere,
\* never under the identifier the request carried
C15_NuncaBajoIdDelCliente ==
    [][\A t \in Threads :
          (/\ pc[t] \in {"crear", "buscar"}
           /\ hilo[t].sid \notin DOMAIN sessions
           /\ hilo[t].sid \in DOMAIN sessions')
            => /\ hilo[t].sid.src = "uuid"
               /\ hilo[t].sid # hilo[t].session_id]_vars

\* C15: a request without a session id creates its session under an identifier
\* of uuid.uuid4() that is in use nowhere; a message request whose session id
\* is not in the registry creates its session under that same id; in both
\* cases nothing else in the registry changes, the new dialog is in its
\* initial state, its last_active is the time of the creation, and the
\* response carries the identifier of the new entry with the welcome text
C15_IdNuevoODelCliente ==
    [][\A t \in Threads :
          LET sid == hilo[t].sid
              creada == /\ sessions' = Poner(sessions, sid,
                                             [chat |-> ChatBienestar, last_active |-> clock])
                        /\ pc'[t] = "responder"
                        /\ hilo'[t].sid = sid
                        /\ hilo'[t].respuesta = MensajeBienvenida
                        /\ hilo'[t].status = 200
          IN /\ (pc[t] = "crear" /\ pc'[t] # "crear")
                   => /\ hilo[t].session_id = SinSid
                      /\ sid.src = "uuid"
                      /\ sid \notin DOMAIN sessions
                      /\ \A u \in Threads \ {t} : hilo[u].sid # sid /\ hilo[u].session_id # sid
                      /\ creada
             /\ (pc[t] = "buscar" /\ pc'[t] # "buscar" /\ sid \notin DOMAIN sessions)
                   => /\ sid = hilo[t].session_id
                      /\ sid # SinSid
                      /\ creada]_vars

\* a message request has created a session under the identifier its client chose
C15_Testigo ==
    \E t \in Threads :
        /\ pc[t] = "responder"
        /\ hilo[t].session_id = SidCliente
        /\ hilo[t].sid = SidCliente
        /\ hilo[t].respuesta = MensajeBienvenida
        /\ SidCliente \in DOMAIN sessions
        /\ sessions[SidCliente].chat = ChatBienestar

\* C16: a message for the dialog in SOLICITAR_NUMERO is validated by its
\* digits alone: when the text has exactly 10 digits, whatever else it has,
\* the dialog calls the customer verification with those 10 digits in their
\* order; otherwise the dialog stays in SOLICITAR_NUMERO as it was, answers the
\* reprompt and makes no verification call
C16_ValidacionDeNumero ==
    [][\A t \in Threads :
          (pc[t] = "idle" /\ pc'[t] # "idle" /\ bot.estado = SOLICITAR_NUMERO)
            => LET digitos == SelectSeq(hilo'[t].texto, LAMBDA c : c \in Digits)
                   v == ValidarNumeroTelefonico(hilo'[t].texto)
               IN /\ bot' = bot
                  /\ v = IF Len(digitos) = 10
                         THEN [es_valido |-> TRUE, numero_limpio |-> digitos]
                         ELSE [es_valido |-> FALSE, numero_limpio |-> <<>>]
                  /\ IF Len(digitos) = 10
                     THEN /\ pc'[t] = "main_api"
                          /\ hilo'[t].api = "cliente"
                          /\ hilo'[t].arg = digitos
                     ELSE /\ pc'[t] = "responder"
                          /\ hilo'[t].api = "none"
                          /\ hilo'[t].respuesta = MensajeNumeroInvalido
                          /\ hilo'[t].status = 200]_vars

\* a phone written with dashes is being verified by its 10 digits, and a text
\* of 11 digits can be sent
C16_Testigo ==
    \E t \in Threads :
        /\ pc[t] = "main_api"
        /\ hilo[t].api = "cliente"
        /\ hilo[t].texto = <<"5", "5", "5", "-", "1", "2", "3", "-", "4", "5", "6", "7">>
        /\ hilo[t].arg = <<"5", "5", "5", "1", "2", "3", "4", "5", "6", "7">>
        /\ \E m \in Mensajes : Len(m) = 11 /\ \A i \in 1..11 : m[i] \in Digits

\* C17: the path of a whole conversation, one state per message. A dialog in
\* INICIO that gets a text with "hola" in any case answers the welcome and is
\* in SOLICITAR_NUMERO; its customer lookup, when it finds a record, answers
\* the menu and leaves it in MENU_PRINCIPAL; there "1" answers the reference
\* prompt and leaves it in SOLICITAR_REFERENCIA; there a non-empty text makes
\* the transaction lookup, which when it finds nothing answers the
\* reference-not-found text and leaves the dialog in FINALIZADO
C17_CaminoCompleto ==
    [][\A t \in Threads :
          LET texto == hilo'[t].texto
              llega == pc[t] = "idle" /\ pc'[t] # "idle"
              responde == pc[t] = "main_api" /\ pc'[t] # "main_api"
              saluda == \E i \in 1..(Len(texto) - 3) :
                           /\ texto[i] \in {"h", "H"}
                           /\ texto[i + 1] \in {"o", "O"}
                           /\ texto[i + 2] \in {"l", "L"}
                           /\ texto[i + 3] \in {"a", "A"}
          IN /\ (llega /\ bot.estado = INICIO /\ saluda)
                   => /\ bot'.estado = SOLICITAR_NUMERO
                      /\ pc'[t] = "responder"
                      /\ hilo'[t].respuesta = MensajeBienvenida
             /\ (llega /\ bot.estado = SOLICITAR_NUMERO
                       /\ texto = <<"5", "5", "5", "1", "2", "3", "4", "5", "6", "7">>)
                   => pc'[t] = "main_api" /\ hilo'[t].api = "cliente" /\ bot' = bot
             /\ (responde /\ hilo[t].api = "cliente"
                          /\ hilo'[t].resultado \in {Cliente, ListaCliente})
                   => /\ bot.estado = SOLICITAR_NUMERO
                      /\ bot'.estado = MENU_PRINCIPAL
                      /\ hilo'[t].respuesta = MensajeVerificacionExitosa
             /\ (llega /\ bot.estado = MENU_PRINCIPAL /\ texto = <<" ", "1", " ">>)
                   => /\ bot'.estado = SOLICITAR_REFERENCIA
                      /\ pc'[t] = "responder"
                      /\ hilo'[t].respuesta = MensajeOpcionRecarga
             /\ (llega /\ bot.estado = SOLICITAR_REFERENCIA
                       /\ texto = <<"R", "E", "F", "9", "9", "9">>)
                   => pc'[t] = "main_api" /\ hilo'[t].api = "recarga" /\ bot' = bot
             /\ (responde /\ hilo[t].api = "recarga" /\ hilo'[t].resultado = DictVacio)
                   => /\ bot.estado = SOLICITAR_REFERENCIA
                      /\ bot'.estado = FINALIZADO
                      /\ hilo'[t].respuesta = MensajeReferenciaNoEncontrada]_vars

\* the conversation has reached its end by that path: the reference REF999 of
\* a verified customer was not found
C17_Testigo ==
    \E t \in Threads :
        /\ pc[t] = "responder"
        /\ hilo[t].texto = <<"R", "E", "F", "9", "9", "9">>
        /\ hilo[t].api = "recarga"
        /\ hilo[t].resultado = DictVacio
        /\ hilo[t].respuesta = MensajeReferenciaNoEncontrada
        /\ bot.estado = FINALIZADO
        /\ bot.numero_verificado = <<"5", "5", "5", "1", "2", "3", "4", "5", "6", "7">>
        /\ bot.datos_cliente = Cliente

\* C18 as stated: when the transaction lookup returns a record with code 0
\* that lacks fields of a transaction, the request does not fail, the dialog
\* is in FINALIZADO and the reply is the report, in which every field whose
\* source is missing, the reference included, reads "N/A"
C18_FaltantesNoDisponibles ==
    \A t \in Threads :
        (/\ pc[t] = "responder"
         /\ hilo[t].api = "recarga"
         /\ hilo[t].resultado.t = "dict"
         /\ hilo[t].resultado.code = "0"
         /\ hilo[t].resultado.data \in {"absent", "vacio", "parcial"})
          => LET falta == CamposRecarga \ CamposDe(hilo[t].resultado)
                 informe == hilo[t].informe
             IN /\ hilo[t].status = 200
                /\ bot.estado = FINALIZADO
                /\ hilo[t].respuesta = MensajeInformacionRecarga
                /\ "paymentMethod" \in falta => informe.referencia = NoDisponible
                /\ "customer" \in falta => /\ informe.cliente = NoDisponible
                                           /\ informe.telefono = NoDisponible
                /\ "amount" \in falta => informe.monto = NoDisponible
                /\ "status" \in falta => informe.estado = NoDisponible
                /\ "authorization" \in falta => informe.autorizacion = NoDisponible
                /\ "creationDate" \in falta => informe.creacion = NoDisponible
                /\ "operationDate" \in falta => informe.operacion = NoDisponible
                /\ "dueDate" \in falta => informe.vencimiento = NoDisponible

\* C18: when the transaction lookup returns a record with code 0 that lacks
\* fields of a transaction, the request does not fail, the dialog is in
\* FINALIZADO and the reply is the report, in which the customer, the phone,
\* the amount, the status, the authorization and the dates read "N/A" when
\* their source is missing, and the reference is the one the user sent when
\* the record has none
C18_FaltantesConReferenciaDelUsuario ==
    \A t \in Threads :
        (/\ pc[t] = "responder"
         /\ hilo[t].api = "recarga"
         /\ hilo[t].resultado.t = "dict"
         /\ hilo[t].resultado.code = "0"
         /\ hilo[t].resultado.data \in {"absent", "vacio", "parcial"})
          => LET falta == CamposRecarga \ CamposDe(hilo[t].resultado)
                 informe == hilo[t].informe
             IN /\ hilo[t].status = 200
                /\ bot.estado = FINALIZADO
                /\ hilo[t].respuesta = MensajeInformacionRecarga
                /\ "paymentMethod" \in falta => informe.referencia = hilo[t].arg
                /\ "customer" \in falta => /\ informe.cliente = NoDisponible
                                           /\ informe.telefono = NoDisponible
                /\ "amount" \in falta => informe.monto = NoDisponible
                /\ "status" \in falta => informe.estado = NoDisponible
                /\ "authorization" \in falta => informe.autorizacion = NoDisponible
                /\ "creationDate" \in falta => informe.creacion = NoDisponible
                /\ "operationDate" \in falta => informe.operacion = NoDisponible
                /\ "dueDate" \in falta => informe.vencimiento = NoDisponible

\* a report was made from a record with code 0 and no data at all
C18_Testigo ==
    \E t \in Threads :
        /\ pc[t] = "responder"
        /\ hilo[t].resultado = RecargaSinData
        /\ hilo[t].respuesta = MensajeInformacionRecarga
        /\ hilo[t].informe.monto = NoDisponible
        /\ hilo[t].informe.referencia = hilo[t].arg
        /\ bot.estado = FINALIZADO

\* C19: every request that creates or looks up a session has swept first: it
\* comes to its registry access from purge_expired_sessions, and when it has
\* made that access the registry holds no session that had been idle longer
\* than the timeout when its sweep read the clock
C19_BarridoEnCadaPeticion ==
    [][\A t \in Threads :
          /\ (pc[t] \notin {"crear_lock", "buscar_lock"}
                /\ pc'[t] \in {"crear_lock", "buscar_lock"})
                => pc[t] = "purge"
          /\ (pc[t] \in {"crear", "buscar"} /\ pc'[t] \notin {"crear", "buscar"})
                => \A s \in DOMAIN sessions' :
                      hilo[t].now - sessions'[s].last_active
                         <= SESSION_TIMEOUT_SECONDS]_vars

\* C20: a message for the dialog in MENU_PRINCIPAL is answered without a
\* verification call and without a change of the verified phone or of the
\* customer record; trimmed and lowercased, "1" leads to SOLICITAR_REFERENCIA
\* with the reference prompt, "2" and "3" lead to FINALIZADO with their
\* replies, and any other text leaves the dialog in MENU_PRINCIPAL with the
\* list of the valid options
C20_MenuPrincipal ==
    [][\A t \in Threads :
          (pc[t] = "idle" /\ pc'[t] # "idle" /\ bot.estado = MENU_PRINCIPAL)
            => LET opcion == Lower(Strip(hilo'[t].texto)) IN
               /\ pc'[t] = "responder"
               /\ hilo'[t].api = "none"
               /\ hilo'[t].status = 200
               /\ bot'.numero_verificado = bot.numero_verificado
               /\ bot'.datos_cliente = bot.datos_cliente
               /\ CASE opcion = <<"1">> ->
                         /\ bot'.estado = SOLICITAR_REFERENCIA
                         /\ hilo'[t].respuesta = MensajeOpcionRecarga
                    [] opcion = <<"2">> ->
                         /\ bot'.estado = FINALIZADO
                         /\ hilo'[t].respuesta = MensajeOtroReporte
                    [] opcion = <<"3">> ->
                         /\ bot'.estado = FINALIZADO
                         /\ hilo'[t].respuesta = MensajeSalir
                    [] OTHER ->
                         /\ bot'.estado = MENU_PRINCIPAL
                         /\ hilo'[t].respuesta = MensajeOpcionInvalida]_vars

\* the option 2 has closed the conversation of a verified customer
C20_Testigo ==
    \E t \in Threads :
        /\ pc[t] = "responder"
        /\ hilo[t].texto = <<"2">>
        /\ hilo[t].respuesta = MensajeOtroReporte
        /\ bot.estado = FINALIZADO
        /\ bot.numero_verificado # <<>>

\* C21: a message for the dialog in SOLICITAR_REFERENCIA that is empty once
\* trimmed leaves the dialog as it was, with the reprompt and no verification
\* call; any other text makes one transaction lookup, and when the lookup has
\* answered the dialog is in FINALIZADO whatever the outcome; the reply is the
\* transaction report only if the result is a record with code 0, and a
\* record whose code is absent or not 0 gets the reference-not-found reply
C21_SolicitarReferencia ==
    [][\A t \in Threads :
          /\ (pc[t] = "idle" /\ pc'[t] # "idle" /\ bot.estado = SOLICITAR_REFERENCIA)
                => /\ bot' = bot
                   /\ IF \A i \in 1..Len(hilo'[t].texto) : hilo'[t].texto[i] = " "
                      THEN /\ pc'[t] = "responder"
                           /\ hilo'[t].api = "none"
                           /\ hilo'[t].respuesta = MensajeReferenciaInvalida
                      ELSE /\ pc'[t] = "main_api"
                           /\ hilo'[t].api = "recarga"
          /\ (pc[t] = "main_api" /\ pc'[t] # "main_api" /\ hilo[t].api = "recarga")
                => LET resultado == hilo'[t].resultado IN
                   /\ pc'[t] = "responder"
                   /\ bot'.estado = FINALIZADO
                   /\ hilo'[t].respuesta = MensajeInformacionRecarga
                         => resultado.t = "dict" /\ resultado.code = "0"
                   /\ (resultado.t = "dict" /\ resultado.code # "0")
                         => hilo'[t].respuesta = MensajeReferenciaNoEncontrada]_vars

C23_DisciplinaDelLock ==
    /\ [][\A t \in Threads :
             (lock' = t /\ lock # t)
                => /\ lock = Libre
                   /\ pc[t] \in {"purge_lock", "crear_lock", "buscar_lock", "health_lock"}]_vars
    /\ [](\A t \in Threads :
             pc[t] \in {"idle", "purge_lock", "crear_lock", "buscar_lock", "health_lock",
                        "responder"} => lock # t)
    /\ \A t \in Threads : (pc[t] # "idle") ~> (pc[t] = "idle")

\* a dialog raised inside the locked section: its request is about to respond
\* with status 500 and the lock is free
C23_Testigo ==
    \E t \in Threads :
        /\ pc[t] = "responder"
        /\ hilo[t].status = 500
        /\ hilo[t].api # "none"
        /\ lock = Libre

====
